---- MODULE Spec2Model ----
(***************************************************************************)
(* Model of the dataset builder: create() of src/main.py and the helpers   *)
(* it calls (read_yaml, the pydantic Config models, prepare_dataframe,     *)
(* cast_dataset_columns, push_to_huggingface).                             *)
(*                                                                         *)
(* The inputs of a run are the YAML file at config_path and the CSV file   *)
(* at dataset.annotation_path; both are drawn in Init.  The third-party    *)
(* calls (pandas, datasets, the hub client) are the environment: where     *)
(* their outcome depends on things outside the program (decoding, the      *)
(* network) the outcome is a nondeterministic choice.                      *)
(***************************************************************************)
EXTENDS Integers, Sequences, FiniteSets, TLC

\* ---------------------------------------------------------------- bounds
MaxOrder == 2   \* longest dataframe_order drawn (repeats allowed)

\* --------------------------------------------------------------- helpers
None == <<>>
Some(x) == <<x>>
Range(s) == {s[i] : i \in DOMAIN s}
SeqsUpTo(S, n) == UNION {[1..k -> S] : k \in 0..n}
Last(s) == s[Len(s)]
Names(cols) == [i \in DOMAIN cols |-> cols[i].name]
IsUnique(s) == \A i, j \in DOMAIN s : s[i] = s[j] => i = j

\* ---------------------------------------------------------- input domains
Columns == {"a", "b"}
TypeNames == {"str", "audio", "image", "video", "int64"}
Dtypes == {"object", "int64"}
Splits == {"train", "test"}

\* A dict keeps insertion order: a sequence of entries with distinct keys.
\* Every dict over Columns is drawn.
CastDicts ==
    {d \in SeqsUpTo([column : Columns, feature_type : TypeNames],
                    Cardinality(Columns)) :
        \A i, j \in DOMAIN d : d[i].column = d[j].column => i = j}
Keys(d) == {d[i].column : i \in DOMAIN d}

DatasetSettings ==
    [annotation_path : {"annotations.csv"},
     dataframe_order : SeqsUpTo(Columns, MaxOrder),
     cast_columns : CastDicts,
     split : Splits]

HubSettings ==
    {[repo_id |-> "user/one", config_name |-> "default",
      commit_message |-> "first upload", private |-> TRUE, revision |-> "main"],
     [repo_id |-> "org/two", config_name |-> "v2",
      commit_message |-> "update", private |-> FALSE, revision |-> "dev"]}

DefaultMapping ==
    [dataset |-> [annotation_path |-> "annotations.csv", dataframe_order |-> <<>>,
                  cast_columns |-> <<>>, split |-> "train"],
     huggingface |-> CHOOSE h \in HubSettings : h.private]

\* The YAML file at config_path.  kind: what the file is; fields: whether a
\* top-level mapping carries every field of Config, well typed.
YamlFiles ==
    {[kind |-> k, fields |-> "none", content |-> DefaultMapping] :
        k \in {"missing", "unreadable", "invalid", "empty", "list", "scalar"}}
    \cup {[kind |-> "mapping", fields |-> "partial", content |-> DefaultMapping]}
    \cup {[kind |-> "mapping", fields |-> "all",
           content |-> [dataset |-> d, huggingface |-> h]] :
            d \in DatasetSettings, h \in HubSettings}

\* The CSV file at annotation_path, when it exists a file pandas parses: its
\* header (at least one column, names distinct) in file order, each column
\* with the dtype pandas infers for its cells.
CsvColumns ==
    {c \in SeqsUpTo([name : Columns, dtype : Dtypes], Cardinality(Columns)) :
        /\ c # <<>>
        /\ \A i, j \in DOMAIN c : c[i].name = c[j].name => i = j}
CsvFiles ==
    {[exists |-> FALSE, columns |-> <<>>]}
    \cup {[exists |-> TRUE, columns |-> c] : c \in CsvColumns}

LogEntry(level, fn, msg) == [level |-> level, fn |-> fn, msg |-> msg]

\* ------------------------------------------------------------- read_yaml
\* yaml.safe_load gives None for an empty document, a list or a scalar for
\* such a top-level value, and a dict for a mapping; read_yaml returns it as is.
safe_load(file) ==
    [type |-> CASE file.kind = "empty" -> "NoneType"
                [] file.kind = "list" -> "list"
                [] file.kind = "scalar" -> "str"
                [] OTHER -> "dict",
     mapping |-> file.content,
     fields |-> file.fields]

NoValue == [type |-> "NoneType", mapping |-> DefaultMapping, fields |-> "none"]

\* the with-block and the handlers of read_yaml, once the path exists
read_yaml_open(file) ==
    IF file.kind = "unreadable"
    THEN [raised |-> "PermissionError", opened |-> FALSE, value |-> NoValue,
          log |-> <<LogEntry("error", "read_yaml",
                             "Permission denied when reading")>>]
    ELSE IF file.kind = "invalid"
    THEN [raised |-> "YAMLError", opened |-> TRUE, value |-> NoValue,
          log |-> <<LogEntry("error", "read_yaml", "Failed to parse YAML file")>>]
    ELSE [raised |-> "none", opened |-> TRUE, value |-> safe_load(file),
          log |-> <<>>]

\* faulty variant: a failure is logged and swallowed, None is returned
read_yaml_swallow(file) ==
    LET r == read_yaml_open(file)
    IN  IF file.kind = "missing"
        THEN [raised |-> "none", opened |-> FALSE, value |-> NoValue,
              log |-> <<LogEntry("error", "read_yaml",
                                 "Unexpected error reading YAML file")>>]
        ELSE [r EXCEPT !.raised = "none"]

read_yaml(file) ==
    IF file.kind = "missing"
    THEN \* raised before open(); caught by "except Exception"
         [raised |-> "FileNotFoundError", opened |-> FALSE, value |-> NoValue,
          log |-> <<LogEntry("error", "read_yaml",
                             "Unexpected error reading YAML file")>>]
    ELSE read_yaml_open(file)

\* ----------------------------------------------------------- the configs
\* faulty variant: the check runs the other way round
validate_columns_consistency_reversed(self) ==
    LET missing_columns == Keys(self.cast_columns) \ Range(self.dataframe_order)
    IN  IF missing_columns # {}
        THEN [raised |-> "ValueError", value |-> None]
        ELSE [raised |-> "none", value |-> Some(self)]

\* faulty variant: both directions are checked
validate_columns_consistency_both(self) ==
    IF Keys(self.cast_columns) # Range(self.dataframe_order)
    THEN [raised |-> "ValueError", value |-> None]
    ELSE [raised |-> "none", value |-> Some(self)]

validate_columns_consistency(self) ==
    LET missing_columns == Range(self.dataframe_order) \ Keys(self.cast_columns)
    IN  IF missing_columns # {}
        THEN [raised |-> "ValueError", value |-> None]
        ELSE [raised |-> "none", value |-> Some(self)]

\* Config(**config_dict): ** needs a mapping; pydantic then requires every
\* field and runs DatasetConfig's validator.
ConfigInit(config_dict) ==
    IF config_dict.type # "dict"
    THEN [raised |-> "TypeError", value |-> None]
    ELSE IF config_dict.fields # "all"
    THEN [raised |-> "ValidationError", value |-> None]
    ELSE LET d == validate_columns_consistency(config_dict.mapping.dataset)
         IN  IF d.raised # "none"
             THEN [raised |-> d.raised, value |-> None]
             ELSE [raised |-> "none",
                   value |-> Some([dataset |-> d.value[1],
                                   huggingface |-> config_dict.mapping.huggingface])]

\* ------------------------------------------------------ prepare_dataframe
ColumnNamed(cols, n) == cols[CHOOSE i \in DOMAIN cols : cols[i].name = n]

\* faulty variant: the columns are checked but the table is not reordered
prepare_dataframe_unordered(config, csv) ==
    IF ~csv.exists
    THEN [raised |-> "FileNotFoundError", value |-> None,
          log |-> <<LogEntry("error", "prepare_dataframe", "CSV file not found")>>]
    ELSE IF ~(Range(config.dataset.dataframe_order) \subseteq Range(Names(csv.columns)))
    THEN [raised |-> "KeyError", value |-> None,
          log |-> <<LogEntry("error", "prepare_dataframe", "Missing column in CSV")>>]
    ELSE [raised |-> "none", value |-> Some(csv.columns),
          log |-> <<LogEntry("info", "prepare_dataframe",
                             "Loaded dataframe with shape")>>]

\* pd.read_csv, then dataframe[dataframe_order]: the listed columns, by name,
\* in the listed order; a column is its name with its cells (here their dtype).
prepare_dataframe(config, csv) ==
    LET order == config.dataset.dataframe_order
    IN  IF ~csv.exists
        THEN [raised |-> "FileNotFoundError", value |-> None,
              log |-> <<LogEntry("error", "prepare_dataframe",
                                 "CSV file not found")>>]
        ELSE IF \E i \in DOMAIN order : order[i] \notin Range(Names(csv.columns))
        THEN [raised |-> "KeyError", value |-> None,
              log |-> <<LogEntry("error", "prepare_dataframe",
                                 "Missing column in CSV")>>]
        ELSE [raised |-> "none",
              value |-> Some([i \in DOMAIN order |->
                                ColumnNamed(csv.columns, order[i])]),
              log |-> <<LogEntry("info", "prepare_dataframe",
                                 "Loaded dataframe with shape")>>]

\* Dataset.from_pandas: one feature per column, inferred from the dtype; the
\* arrow conversion refuses a table with duplicate column names.
InferredFeature(dtype) ==
    IF dtype = "object" THEN "Value(string)" ELSE "Value(int64)"

from_pandas(df) ==
    IF ~IsUnique(Names(df))
    THEN [raised |-> "ValueError", value |-> None]
    ELSE [raised |-> "none",
          value |-> Some([i \in DOMAIN df |->
                            [name |-> df[i].name,
                             feature |-> InferredFeature(df[i].dtype)]])]

\* --------------------------------------------------- cast_dataset_columns
DATA_TYPE_MAP ==
    [t \in {"audio", "image", "video"} |->
        CASE t = "audio" -> "Audio()"
          [] t = "image" -> "Image()"
          [] t = "video" -> "Video()"]

\* dataset.cast_column: the column's feature is replaced; the others stay.
cast_column(dataset, column, feature) ==
    [i \in DOMAIN dataset |->
        IF dataset[i].name = column
        THEN [dataset[i] EXCEPT !.feature = feature]
        ELSE dataset[i]]

\* faulty variant: the "str" test is dropped, every entry is looked up
cast_entry_no_skip(dataset, entry, lib_ok) ==
    IF entry.feature_type \notin DOMAIN DATA_TYPE_MAP
    THEN [outcome |-> "raise", raised |-> "KeyError", dataset |-> dataset,
          called |-> FALSE,
          log |-> <<LogEntry("error", "cast_dataset_columns",
                             "Unknown feature type")>>]
    ELSE IF entry.column \notin Range(Names(dataset)) \/ ~lib_ok
    THEN [outcome |-> "raise", raised |-> "CastError", dataset |-> dataset,
          called |-> TRUE,
          log |-> <<LogEntry("error", "cast_dataset_columns",
                             "Error casting column")>>]
    ELSE [outcome |-> "next", raised |-> "none",
          dataset |-> cast_column(dataset, entry.column,
                                  DATA_TYPE_MAP[entry.feature_type]),
          called |-> TRUE, log |-> <<>>]

\* faulty variant: an unknown feature type is skipped like "str"
cast_entry_lenient(dataset, entry, lib_ok) ==
    IF entry.feature_type \notin DOMAIN DATA_TYPE_MAP
    THEN [outcome |-> "next", raised |-> "none", dataset |-> dataset,
          called |-> FALSE, log |-> <<>>]
    ELSE IF entry.column \notin Range(Names(dataset)) \/ ~lib_ok
    THEN [outcome |-> "raise", raised |-> "CastError", dataset |-> dataset,
          called |-> TRUE,
          log |-> <<LogEntry("error", "cast_dataset_columns",
                             "Error casting column")>>]
    ELSE [outcome |-> "next", raised |-> "none",
          dataset |-> cast_column(dataset, entry.column,
                                  DATA_TYPE_MAP[entry.feature_type]),
          called |-> TRUE, log |-> <<>>]

\* One iteration of the loop of cast_dataset_columns.  lib_ok: whether the
\* library accepts the cast of an existing column (it never accepts a column
\* the dataset does not have).
cast_entry(dataset, entry, lib_ok) ==
    IF entry.feature_type = "str"
    THEN [outcome |-> "next", raised |-> "none", dataset |-> dataset,
          called |-> FALSE, log |-> <<>>]
    ELSE IF entry.feature_type \notin DOMAIN DATA_TYPE_MAP
    THEN [outcome |-> "raise", raised |-> "KeyError", dataset |-> dataset,
          called |-> FALSE,
          log |-> <<LogEntry("error", "cast_dataset_columns",
                             "Unknown feature type")>>]
    ELSE IF entry.column \notin Range(Names(dataset)) \/ ~lib_ok
    THEN [outcome |-> "raise", raised |-> "CastError", dataset |-> dataset,
          called |-> TRUE,
          log |-> <<LogEntry("error", "cast_dataset_columns",
                             "Error casting column")>>]
    ELSE [outcome |-> "next", raised |-> "none",
          dataset |-> cast_column(dataset, entry.column,
                                  DATA_TYPE_MAP[entry.feature_type]),
          called |-> TRUE, log |-> <<>>]

\* ---------------------------------------------------- push_to_huggingface
\* faulty variant: the revision is not taken from the config
push_to_hub_kwargs_main(config) ==
    [repo_id |-> config.huggingface.repo_id,
     config_name |-> config.huggingface.config_name,
     commit_message |-> config.huggingface.commit_message,
     private |-> config.huggingface.private,
     revision |-> "main",
     max_shard_size |-> "1GB",
     embed_external_files |-> TRUE]

push_to_hub_kwargs(config) ==
    [repo_id |-> config.huggingface.repo_id,
     config_name |-> config.huggingface.config_name,
     commit_message |-> config.huggingface.commit_message,
     private |-> config.huggingface.private,
     revision |-> config.huggingface.revision,
     max_shard_size |-> "1GB",
     embed_external_files |-> TRUE]

\* DatasetDict({config.dataset.split: dataset})
DatasetDict(config, dataset) ==
    <<[split |-> config.dataset.split, dataset |-> dataset]>>

\* hub_ok: whether the hub accepts the upload (the network is the environment)
push_to_huggingface(datasets_dict, config, hub_ok) ==
    [call |-> [kwargs |-> push_to_hub_kwargs(config), datasets_dict |-> datasets_dict],
     raised |-> IF hub_ok THEN "none" ELSE "HubError",
     log |-> IF hub_ok
             THEN <<LogEntry("info", "push_to_huggingface",
                             "Successfully pushed dataset")>>
             ELSE <<LogEntry("error", "push_to_huggingface",
                             "Failed to push to Hugging Face Hub")>>]

\* ------------------------------------------------------------------ create
VARIABLES
    yamlFile,       \* the file at config_path
    csvFile,        \* the file at dataset.annotation_path
    pc,             \* the statement of create about to run, or "done"
    yamlOpened,     \* read_yaml got the file open
    config_dict,    \* what read_yaml returned
    config,         \* the validated Config
    dataframe,      \* what prepare_dataframe returned
    dataset,        \* the Dataset, as from_pandas and the casts left it
    castIdx,        \* the entry of cast_columns the loop is at
    castCalls,      \* the cast_column calls made, in order
    datasets_dict,  \* the DatasetDict
    pushCalls,      \* the push_to_hub calls made, in order
    raised,         \* the exception that left create, or "none"
    log,            \* the records logged, in order
    stages          \* the statements of create run so far, with how each ended

vars == <<yamlFile, csvFile, pc, yamlOpened, config_dict, config, dataframe,
          dataset, castIdx, castCalls, datasets_dict, pushCalls, raised, log,
          stages>>

StageOrder ==
    <<"read_yaml", "Config", "prepare_dataframe", "from_pandas",
      "cast_dataset_columns", "DatasetDict", "push_to_huggingface">>

StageIndex(stage) == CHOOSE i \in DOMAIN StageOrder : StageOrder[i] = stage

\* faulty variant: the cast statement is missing from create
NextStage_no_cast(stage) ==
    IF stage = "from_pandas" THEN "DatasetDict"
    ELSE IF StageIndex(stage) = Len(StageOrder) THEN "done"
    ELSE StageOrder[StageIndex(stage) + 1]

\* the body of create's try is straight-line code
NextStage(stage) ==
    IF StageIndex(stage) = Len(StageOrder) THEN "done"
    ELSE StageOrder[StageIndex(stage) + 1]

\* faulty variant: the handler logs and swallows the exception
create_except_swallow(lg, exc) ==
    [log |-> Append(lg, LogEntry("error", "create", "Dataset creation failed")),
     raised |-> "none",
     pc |-> "done"]

\* faulty variant: the handler runs the upload anyway
create_except_continue(lg, exc) ==
    [log |-> Append(lg, LogEntry("error", "create", "Dataset creation failed")),
     raised |-> exc,
     pc |-> "push_to_huggingface"]

\* create's "except Exception": log, then re-raise the same exception
create_except(lg, exc) ==
    [log |-> Append(lg, LogEntry("error", "create", "Dataset creation failed")),
     raised |-> exc,
     pc |-> "done"]

Mark(stage, outcome, exc) ==
    LET e == [stage |-> stage, outcome |-> outcome, exc |-> exc]
    IN  IF stages # <<>> /\ Last(stages).stage = stage /\ Last(stages).outcome = "running"
        THEN [stages EXCEPT ![Len(stages)] = e]
        ELSE Append(stages, e)

\* A statement of the try body ends: control goes on, or to the handler.
StageEnds(stage, exc, lg) ==
    /\ stages' = Mark(stage, IF exc = "none" THEN "returned" ELSE "raised", exc)
    /\ IF exc = "none"
       THEN /\ log' = log \o lg
            /\ raised' = raised
            /\ pc' = NextStage(stage)
       ELSE LET h == create_except(log \o lg, exc)
            IN  /\ log' = h.log
                /\ raised' = h.raised
                /\ pc' = h.pc

Init ==
    /\ yamlFile \in YamlFiles
    /\ csvFile \in CsvFiles
    /\ pc = "read_yaml"
    /\ yamlOpened = FALSE
    /\ config_dict = None
    /\ config = None
    /\ dataframe = None
    /\ dataset = None
    /\ castIdx = 1
    /\ castCalls = <<>>
    /\ datasets_dict = None
    /\ pushCalls = <<>>
    /\ raised = "none"
    /\ log = <<>>
    /\ stages = <<>>

\* config_dict = read_yaml(yaml_path=config_path)
ReadYaml ==
    /\ pc = "read_yaml"
    /\ LET r == read_yaml(yamlFile)
       IN  /\ yamlOpened' = r.opened
           /\ config_dict' = IF r.raised = "none" THEN Some(r.value) ELSE None
           /\ StageEnds("read_yaml", r.raised, r.log)
    /\ UNCHANGED <<yamlFile, csvFile, config, dataframe, dataset, castIdx,
                   castCalls, datasets_dict, pushCalls>>

\* config = Config(**config_dict), then the info record
MakeConfig ==
    /\ pc = "Config"
    /\ LET r == ConfigInit(config_dict[1])
       IN  /\ config' = r.value
           /\ StageEnds("Config", r.raised,
                        IF r.raised = "none"
                        THEN <<LogEntry("info", "create", "Loaded configuration")>>
                        ELSE <<>>)
    /\ UNCHANGED <<yamlFile, csvFile, yamlOpened, config_dict, dataframe, dataset,
                   castIdx, castCalls, datasets_dict, pushCalls>>

\* dataframe = prepare_dataframe(config=config)
PrepareDataframe ==
    /\ pc = "prepare_dataframe"
    /\ LET r == prepare_dataframe(config[1], csvFile)
       IN  /\ dataframe' = r.value
           /\ StageEnds("prepare_dataframe", r.raised, r.log)
    /\ UNCHANGED <<yamlFile, csvFile, yamlOpened, config_dict, config, dataset,
                   castIdx, castCalls, datasets_dict, pushCalls>>

\* dataset = Dataset.from_pandas(df=dataframe)
FromPandas ==
    /\ pc = "from_pandas"
    /\ LET r == from_pandas(dataframe[1])
       IN  /\ dataset' = r.value
           /\ StageEnds("from_pandas", r.raised, <<>>)
    /\ UNCHANGED <<yamlFile, csvFile, yamlOpened, config_dict, config, dataframe,
                   castIdx, castCalls, datasets_dict, pushCalls>>

\* one iteration of "for column, feature_type in cast_columns.items()"
CastColumn ==
    /\ pc = "cast_dataset_columns"
    /\ castIdx <= Len(config[1].dataset.cast_columns)
    /\ \E lib_ok \in BOOLEAN :
         LET entry == config[1].dataset.cast_columns[castIdx]
             r == cast_entry(dataset[1], entry, lib_ok)
         IN  /\ castCalls' = IF r.called THEN Append(castCalls, entry) ELSE castCalls
             /\ dataset' = Some(r.dataset)
             /\ IF r.outcome = "next"
                THEN /\ castIdx' = castIdx + 1
                     /\ stages' = Mark("cast_dataset_columns", "running", "none")
                     /\ UNCHANGED <<pc, raised, log>>
                ELSE /\ castIdx' = castIdx
                     /\ StageEnds("cast_dataset_columns", r.raised, r.log)
    /\ UNCHANGED <<yamlFile, csvFile, yamlOpened, config_dict, config, dataframe,
                   datasets_dict, pushCalls>>

\* the loop is exhausted: "return dataset"
CastReturn ==
    /\ pc = "cast_dataset_columns"
    /\ castIdx > Len(config[1].dataset.cast_columns)
    /\ StageEnds("cast_dataset_columns", "none", <<>>)
    /\ UNCHANGED <<yamlFile, csvFile, yamlOpened, config_dict, config, dataframe,
                   dataset, castIdx, castCalls, datasets_dict, pushCalls>>

\* datasets_dict = DatasetDict({config.dataset.split: dataset})
WrapDatasetDict ==
    /\ pc = "DatasetDict"
    /\ datasets_dict' = Some(DatasetDict(config[1], dataset[1]))
    /\ StageEnds("DatasetDict", "none", <<>>)
    /\ UNCHANGED <<yamlFile, csvFile, yamlOpened, config_dict, config, dataframe,
                   dataset, castIdx, castCalls, pushCalls>>

\* push_to_huggingface(datasets_dict=datasets_dict, config=config)
Push ==
    /\ pc = "push_to_huggingface"
    /\ \E hub_ok \in BOOLEAN :
         LET r == push_to_huggingface(datasets_dict[1], config[1], hub_ok)
         IN  /\ pushCalls' = Append(pushCalls, r.call)
             /\ StageEnds("push_to_huggingface", r.raised, r.log)
    /\ UNCHANGED <<yamlFile, csvFile, yamlOpened, config_dict, config, dataframe,
                   dataset, castIdx, castCalls, datasets_dict>>

Next ==
    \/ ReadYaml
    \/ MakeConfig
    \/ PrepareDataframe
    \/ FromPandas
    \/ CastColumn
    \/ CastReturn
    \/ WrapDatasetDict
    \/ Push

Spec == Init /\ [][Next]_vars

\* ------------------------------------------------------------ properties
RawDataset == yamlFile.content.dataset
RawHub == yamlFile.content.huggingface
FullMapping == yamlFile.kind = "mapping" /\ yamlFile.fields = "all"
Ended(i) == Len(stages) >= i /\ stages[i].outcome # "running"
Returned(i) == Len(stages) >= i /\ stages[i].outcome = "returned"
Raised(i, exc) ==
    Len(stages) >= i /\ stages[i].outcome = "raised" /\ stages[i].exc = exc
TypeOf(cast, col) == cast[CHOOSE i \in DOMAIN cast : cast[i].column = col].feature_type
ConfiguredFeature(t) ==
    IF t = "str" THEN "Value(string)"
    ELSE IF t \in DOMAIN DATA_TYPE_MAP THEN DATA_TYPE_MAP[t]
    ELSE "unknown"
FeatureOf(ds, col) == ColumnNamed(ds, col).feature
ErrorLoggedBy(fn) == \E i \in DOMAIN log : log[i].level = "error" /\ log[i].fn = fn

\* C1: the dataset handed to the upload has exactly the columns of
\* dataframe_order, in that order, each with the type cast_columns configures
\* for it ("str": a string column; otherwise the registered media feature).
C1_ConfiguredColumnsAndTypes ==
    \A i \in DOMAIN pushCalls :
        LET ds == pushCalls[i].datasets_dict[1].dataset
            d == config[1].dataset
        IN  /\ Names(ds) = d.dataframe_order
            /\ \A j \in DOMAIN ds :
                 ds[j].feature = ConfiguredFeature(TypeOf(d.cast_columns, ds[j].name))

\* C2: with every field present, constructing the DatasetConfig raises
\* ValueError exactly when some column of dataframe_order is no key of
\* cast_columns; otherwise the configuration is accepted, unchanged.
C2_ValidateIff ==
    (FullMapping /\ Ended(2)) =>
        LET missing == Range(RawDataset.dataframe_order) \ Keys(RawDataset.cast_columns)
        IN  /\ Raised(2, "ValueError") <=> missing # {}
            /\ Returned(2) <=> missing = {}
            /\ Returned(2) => config = Some([dataset |-> RawDataset,
                                             huggingface |-> RawHub])
            /\ ~Returned(2) => config = None

\* a configuration with casts declared is rejected for an undeclared column
C2_Witness ==
    /\ FullMapping
    /\ Raised(2, "ValueError")
    /\ RawDataset.cast_columns # <<>>
    /\ pc = "done"

\* C3 as stated: column casting is completed before the table is wrapped as
\* a dataset.
C3_CastBeforeWrap ==
    \A i \in DOMAIN stages :
        stages[i].stage = "from_pandas" =>
            \E j \in 1..(i - 1) :
                /\ stages[j].stage = "cast_dataset_columns"
                /\ stages[j].outcome = "returned"

\* C3 amended: the statements of create run in the fixed order read_yaml,
\* Config, prepare_dataframe, Dataset.from_pandas, cast_dataset_columns,
\* DatasetDict, push_to_huggingface; none starts before the one before it has
\* returned; the casts run on the wrapped Dataset and are completed before it
\* is put in the DatasetDict and uploaded.
C3_StageOrder ==
    /\ Len(stages) <= Len(StageOrder)
    /\ \A i \in DOMAIN stages :
         /\ stages[i].stage = StageOrder[i]
         /\ i < Len(stages) => stages[i].outcome = "returned"
    /\ pc # "done" =>
         IF stages # <<>> /\ Last(stages).outcome = "running"
         THEN pc = Last(stages).stage
         ELSE pc = StageOrder[Len(stages) + 1]
    /\ dataset # None => Returned(3)
    /\ castCalls # <<>> => Returned(4)
    /\ datasets_dict # None => Returned(5)
    /\ pushCalls # <<>> => Returned(6)

\* a run went through every stage, with a column cast on the way
C3_Witness ==
    /\ pc = "done"
    /\ raised = "none"
    /\ Len(stages) = Len(StageOrder)
    /\ castCalls # <<>>

\* C4: a stage that raises has an error logged, the same exception leaves
\* create, the stage is not run again and no later stage runs; the upload is
\* attempted at most once and never after an earlier stage failed.
C4_LogAndReraise ==
    /\ \A i \in DOMAIN stages :
         stages[i].outcome = "raised" =>
            /\ i = Len(stages)
            /\ pc = "done"
            /\ raised = stages[i].exc
            /\ raised # "none"
            /\ log # <<>>
            /\ Last(log) = LogEntry("error", "create", "Dataset creation failed")
    /\ raised # "none" => stages # <<>> /\ Last(stages).outcome = "raised"
    /\ \A i, j \in DOMAIN stages : stages[i].stage = stages[j].stage => i = j
    /\ Len(pushCalls) <= 1
    /\ pushCalls # <<>> =>
         \A i \in DOMAIN stages :
            stages[i].stage # "push_to_huggingface" => stages[i].outcome = "returned"

\* the upload failed: logged, re-raised, not retried
C4_Witness ==
    /\ pc = "done"
    /\ raised = "HubError"
    /\ Len(pushCalls) = 1
    /\ ErrorLoggedBy("push_to_huggingface")

\* the dataset as Dataset.from_pandas made it, before any cast
Uncast == from_pandas(dataframe[1]).value[1]
CastDict == config[1].dataset.cast_columns
Unknown(i) == CastDict[i].feature_type \notin (DOMAIN DATA_TYPE_MAP \cup {"str"})
CastEnded == Ended(5)

C6_ReadYamlReturnsMapping ==
    config_dict # None => config_dict[1].type = "dict"

\* C7: a path that does not exist raises FileNotFoundError without the file
\* being opened, an invalid file raises YAMLError, an unreadable one raises
\* PermissionError; each after an error is logged, and nothing is returned.
C7_ReadYamlRaises ==
    Ended(1) =>
        LET failure(exc) ==
                /\ Raised(1, exc)
                /\ config_dict = None
                /\ log # <<>>
                /\ log[1].level = "error"
                /\ log[1].fn = "read_yaml"
        IN  /\ yamlFile.kind = "missing" => failure("FileNotFoundError") /\ ~yamlOpened
            /\ yamlFile.kind = "invalid" => failure("YAMLError")
            /\ yamlFile.kind = "unreadable" => failure("PermissionError")
            /\ Returned(1) <=> config_dict # None

\* the config path does not exist
C7_Witness ==
    /\ yamlFile.kind = "missing"
    /\ raised = "FileNotFoundError"
    /\ pc = "done"

\* C8: every upload goes to the repository and revision of the config, with
\* the hub settings passed through, shard size "1GB", external files embedded,
\* and a dataset dictionary of exactly one split, named dataset.split.
C8_UploadTarget ==
    \A i \in DOMAIN pushCalls :
        LET c == pushCalls[i]
            hf == config[1].huggingface
        IN  /\ hf = RawHub
            /\ c.kwargs.repo_id = hf.repo_id
            /\ c.kwargs.config_name = hf.config_name
            /\ c.kwargs.commit_message = hf.commit_message
            /\ c.kwargs.private = hf.private
            /\ c.kwargs.revision = hf.revision
            /\ c.kwargs.max_shard_size = "1GB"
            /\ c.kwargs.embed_external_files = TRUE
            /\ Len(c.datasets_dict) = 1
            /\ c.datasets_dict[1].split = config[1].dataset.split
            /\ config[1].dataset.split = RawDataset.split
            /\ c.datasets_dict[1].dataset = dataset[1]

\* an upload to a revision other than the default branch, split "test"
C8_Witness ==
    /\ pushCalls # <<>>
    /\ RawHub.revision = "dev"
    /\ RawDataset.split = "test"

\* C9: prepare_dataframe returns the CSV's columns named in dataframe_order,
\* in that order, cells untouched and the others dropped, when all are in the
\* CSV; raises KeyError after logging, returning nothing, when one is
\* missing; and raises FileNotFoundError when the CSV does not exist.
C9_PrepareDataframe ==
    (config # None /\ Ended(3)) =>
        LET order == config[1].dataset.dataframe_order
            present == Range(Names(csvFile.columns))
        IN  IF ~csvFile.exists
            THEN /\ Raised(3, "FileNotFoundError")
                 /\ dataframe = None
                 /\ ErrorLoggedBy("prepare_dataframe")
            ELSE IF ~(Range(order) \subseteq present)
            THEN /\ Raised(3, "KeyError")
                 /\ dataframe = None
                 /\ ErrorLoggedBy("prepare_dataframe")
            ELSE /\ Returned(3)
                 /\ Names(dataframe[1]) = order
                 /\ \A i \in DOMAIN order :
                      dataframe[1][i] = ColumnNamed(csvFile.columns, order[i])

\* the second CSV column is kept alone: the first is dropped
C9_Witness ==
    /\ Returned(3)
    /\ Len(csvFile.columns) = 2
    /\ Names(dataframe[1]) = <<csvFile.columns[2].name>>

DroppedCast(i) ==
    /\ RawDataset.cast_columns[i].column \notin Range(RawDataset.dataframe_order)
    /\ RawDataset.cast_columns[i].feature_type # "str"

====
